---- MODULE Spec2Model ----
(***************************************************************************)
(* Level generation and solvability checking of the colour sorting game    *)
(* (src/generation/generate_levels.py).                                    *)
(*                                                                         *)
(* A board is a sequence of bases; a base is a sequence of objects whose   *)
(* last element is the top.  Objects are colour identifiers, modelled as   *)
(* the positions 1..n of the names in the list load_colors returns.        *)
(*                                                                         *)
(* Spec   : main -> create_level -> scramble / is_solved / solve_level,    *)
(*          followed by the validation of the returned level in main.      *)
(* FnSpec : _next_states, back_propagate, scramble and solve_level called  *)
(*          on an arbitrary board drawn from bounded sets.                 *)
(***************************************************************************)
EXTENDS Integers, Sequences, FiniteSets, TLC

\* ---- bounds of the model ------------------------------------------------
MaxBases == 3
MaxHeight == 3
MaxColors == 2
MaxSteps == 4
\* bounds of the boards FnSpec draws
FnMaxBases == 3
FnMaxHeight == 3
FnMaxColors == 2
FnMaxSteps == 2
\* bounds of the boards FnLiveSpec draws
LiveMaxBases == 3
LiveMaxHeight == 2
\* bounds of the malformed levels MalSpec draws
MalMaxBases == 2
MalMaxHeight == 2

\* ---- program constants --------------------------------------------------
per_row == 3
NUM_LEVELS == 40

\* keys are level numbers; each value sets some of the three settings
DIFFICULTY_STEPS ==
  (0 :> [bases_count |-> 3, base_height |-> 5, steps |-> 5]) @@
  (5 :> [steps |-> 10]) @@
  (10 :> [bases_count |-> 4, steps |-> 15]) @@
  (20 :> [bases_count |-> 5, steps |-> 20]) @@
  (30 :> [bases_count |-> 6, steps |-> 25])

VARIABLES
  level_num,  \* generate_levels: the index of the next level
  settings,   \* generate_levels: the dict of the settings in force
  cfg,        \* arguments of create_level: base_count, base_height, colors, steps
  bases,      \* the board create_level builds and scramble mutates (or the API input)
  stepsLeft,  \* remaining iterations of the loop of scramble
  level,      \* the level dict built by create_level
  heights,    \* solve_level: heights returned by _parse_level (or the API input)
  start,      \* solve_level: the start key
  queue,      \* solve_level: the deque of boards
  visited,    \* solve_level: the set of visited keys
  explored,   \* solve_level: the counter of generated successors
  solved,     \* the first component of the value solve_level returned
  result,     \* the list returned by _next_states or back_propagate
  raised,     \* TRUE when the call ended by raising an exception
  caller,     \* who called solve_level: "create", "main" or "api"
  pc          \* the position of the program

vars == <<level_num, settings, cfg, bases, stepsLeft, level, heights, start, queue, visited,
          explored, solved, result, raised, caller, pc>>

Min(a, b) == IF a < b THEN a ELSE b

\* xs[-mv:] for 1 <= mv
LastN(xs, mv) == SubSeq(xs, Len(xs) - Min(mv, Len(xs)) + 1, Len(xs))

\* xs[:-mv] for 1 <= mv
DropLastN(xs, mv) == SubSeq(xs, 1, Len(xs) - Min(mv, Len(xs)))

\* concatenation of the sequences f[1], ..., f[n]
RECURSIVE Flatten(_, _)
Flatten(f, n) == IF n = 0 THEN <<>> ELSE Flatten(f, n - 1) \o f[n]

\* any(obj != b[0] for obj in b) is False
Uniform(b) == \A k \in 1..Len(b) : b[k] = b[1]

\* the loop of is_solved from base i on: continue on an empty base, return
\* False on a base that is not full or not of one colour, True at the end
RECURSIVE IsSolvedLoop(_, _, _)
IsSolvedLoop(bs, base_height, i) ==
  IF i > Len(bs) THEN TRUE
  ELSE IF bs[i] = <<>> THEN IsSolvedLoop(bs, base_height, i + 1)
  ELSE IF Len(bs[i]) # base_height THEN FALSE
  ELSE IF ~Uniform(bs[i]) THEN FALSE
  ELSE IsSolvedLoop(bs, base_height, i + 1)

is_solved(bs, base_height) == IsSolvedLoop(bs, base_height, 1)

\* variant of SolvedLoop: a base of one colour counts as solved when it is not full
RECURSIVE SolvedLoop_NoFullTest(_, _, _)
SolvedLoop_NoFullTest(bs, hs, i) ==
  IF i > Min(Len(bs), Len(hs)) THEN TRUE
  ELSE IF bs[i] = <<>> THEN SolvedLoop_NoFullTest(bs, hs, i + 1)
  ELSE IF ~Uniform(bs[i]) THEN FALSE
  ELSE SolvedLoop_NoFullTest(bs, hs, i + 1)

\* the loop of _solved over zip(bases, heights), from position i on
RECURSIVE SolvedLoop(_, _, _)
SolvedLoop(bs, hs, i) ==
  IF i > Min(Len(bs), Len(hs)) THEN TRUE
  ELSE IF bs[i] = <<>> THEN SolvedLoop(bs, hs, i + 1)
  ELSE IF Len(bs[i]) # hs[i] THEN FALSE
  ELSE IF ~Uniform(bs[i]) THEN FALSE
  ELSE SolvedLoop(bs, hs, i + 1)

_solved(bs, hs) == SolvedLoop(bs, hs, 1)

\* variant of ScrambleMoves: only whole bases are moved
ScrambleMoves_WholeBase(bs, base_height) ==
  { m \in (1..Len(bs)) \X (1..Len(bs)) \X (1..base_height) :
      /\ bs[m[1]] # <<>>
      /\ m[1] # m[2]
      /\ Len(bs[m[2]]) # base_height
      /\ m[3] = Len(bs[m[1]])
      /\ m[3] <= base_height - Len(bs[m[2]]) }

\* variant of ScrambleMoves: range(1, max_move), the largest move is left out
ScrambleMoves_OffByOne(bs, base_height) ==
  { m \in (1..Len(bs)) \X (1..Len(bs)) \X (1..base_height) :
      /\ bs[m[1]] # <<>>
      /\ m[1] # m[2]
      /\ Len(bs[m[2]]) # base_height
      /\ m[3] < Min(Len(bs[m[1]]), base_height - Len(bs[m[2]])) }

\* variant of ScrambleMoves: the room left in the target is not taken into account
ScrambleMoves_IgnoreRoom(bs, base_height) ==
  { m \in (1..Len(bs)) \X (1..Len(bs)) \X (1..base_height) :
      /\ bs[m[1]] # <<>>
      /\ m[1] # m[2]
      /\ m[3] <= Len(bs[m[1]]) }

\* the list `moves` that one iteration of scramble collects
ScrambleMoves(bs, base_height) ==
  { m \in (1..Len(bs)) \X (1..Len(bs)) \X (1..base_height) :
      /\ bs[m[1]] # <<>>
      /\ m[1] # m[2]
      /\ Len(bs[m[2]]) # base_height
      /\ m[3] <= Min(Len(bs[m[1]]), base_height - Len(bs[m[2]])) }

\* variant of MoveBlock: the block is copied, the source keeps it
MoveBlock_KeepSource(bs, i, j, mv) ==
  [bs EXCEPT ![j] = bs[j] \o LastN(bs[i], mv)]

\* block = bases[i][-mv:]; bases[i] = bases[i][:-mv]; bases[j].extend(block)
MoveBlock(bs, i, j, mv) ==
  [bs EXCEPT ![i] = DropLastN(bs[i], mv), ![j] = bs[j] \o LastN(bs[i], mv)]

\* the boards scramble can leave after `steps` more iterations, started on a
\* board of the set S: an iteration applies one of the moves, or breaks
RECURSIVE ScrambleOutcomes(_, _, _)
ScrambleOutcomes(S, base_height, steps) ==
  IF steps = 0 THEN S
  ELSE ScrambleOutcomes(
         UNION { IF ScrambleMoves(b, base_height) = {} THEN {b}
                 ELSE { MoveBlock(b, m[1], m[2], m[3]) :
                          m \in ScrambleMoves(b, base_height) } : b \in S },
         base_height, steps - 1)

\* the length of the run of objects equal to the top one, counted from the top
RECURSIVE TopRun(_, _)
TopRun(src, j) ==
  IF j >= 1 /\ src[j] = src[Len(src)] THEN 1 + TopRun(src, j - 1) ELSE 0

TopGroup(src) == TopRun(src, Len(src))

\* variant of StatesFromTo: only empty targets are accepted
StatesFromTo_EmptyTarget(bs, hs, i, j) ==
  IF i = j \/ Len(bs[j]) = hs[j] \/ bs[j] # <<>>
  THEN <<>>
  ELSE LET max_move == Min(TopGroup(bs[i]), hs[j] - Len(bs[j]))
       IN  [mv \in 1..max_move |-> MoveBlock(bs, i, j, mv)]

\* variant of StatesFromTo: the colour of the top of the target is not compared
StatesFromTo_AnyColour(bs, hs, i, j) ==
  IF i = j \/ Len(bs[j]) = hs[j]
  THEN <<>>
  ELSE LET max_move == Min(TopGroup(bs[i]), hs[j] - Len(bs[j]))
       IN  [mv \in 1..max_move |-> MoveBlock(bs, i, j, mv)]

\* the successors _next_states appends for source i and target j
StatesFromTo(bs, hs, i, j) ==
  IF \/ i = j
     \/ Len(bs[j]) = hs[j]
     \/ (bs[j] # <<>> /\ bs[j][Len(bs[j])] # bs[i][Len(bs[i])])
  THEN <<>>
  ELSE LET max_move == Min(TopGroup(bs[i]), hs[j] - Len(bs[j]))
       IN  [mv \in 1..max_move |-> MoveBlock(bs, i, j, mv)]

StatesFrom(bs, hs, i) ==
  IF bs[i] = <<>> THEN <<>>
  ELSE Flatten([j \in 1..Len(bs) |-> StatesFromTo(bs, hs, i, j)], Len(bs))

_next_states(bs, hs) ==
  Flatten([i \in 1..Len(bs) |-> StatesFrom(bs, hs, i)], Len(bs))

\* variant of BackCandidate: solved candidates are kept
BackCandidate_KeepSolved(bs, hs, tgt, r, src) ==
  LET source_base == bs[tgt]
      colour == source_base[Len(source_base)]
      new_tgt == DropLastN(source_base, r)
  IN  IF \/ src = tgt
         \/ Len(bs[src]) + r > hs[src]
         \/ (new_tgt # <<>> /\ new_tgt[Len(new_tgt)] # colour)
      THEN <<>>
      ELSE <<[bs EXCEPT ![src] = bs[src] \o LastN(source_base, r), ![tgt] = new_tgt]>>

\* variant of BackCandidate: the room left in src is not checked
BackCandidate_IgnoreRoom(bs, hs, tgt, r, src) ==
  LET source_base == bs[tgt]
      colour == source_base[Len(source_base)]
      new_tgt == DropLastN(source_base, r)
      candidate == [bs EXCEPT ![src] = bs[src] \o LastN(source_base, r), ![tgt] = new_tgt]
  IN  IF \/ src = tgt
         \/ (new_tgt # <<>> /\ new_tgt[Len(new_tgt)] # colour)
      THEN <<>>
      ELSE IF ~_solved(candidate, hs) THEN <<candidate>> ELSE <<>>

\* the candidate back_propagate appends for target tgt, run length r and source src
BackCandidate(bs, hs, tgt, r, src) ==
  LET source_base == bs[tgt]
      colour == source_base[Len(source_base)]
      group == LastN(source_base, r)
      new_src == bs[src] \o group
      new_tgt == DropLastN(source_base, r)
      candidate == [bs EXCEPT ![src] = new_src, ![tgt] = new_tgt]
  IN  IF \/ src = tgt
         \/ Len(bs[src]) + r > hs[src]
         \/ (new_tgt # <<>> /\ new_tgt[Len(new_tgt)] # colour)
      THEN <<>>
      ELSE IF ~_solved(candidate, hs) THEN <<candidate>> ELSE <<>>

BackFromRun(bs, hs, tgt, r) ==
  Flatten([src \in 1..Len(bs) |-> BackCandidate(bs, hs, tgt, r, src)], Len(bs))

BackFrom(bs, hs, tgt) ==
  IF bs[tgt] = <<>> THEN <<>>
  ELSE LET run == TopGroup(bs[tgt])
       IN  Flatten([r \in 1..run |-> BackFromRun(bs, hs, tgt, r)], run)

\* the list back_propagate returns when its argument is solved
back_propagate(bs, hs) ==
  Flatten([tgt \in 1..Len(bs) |-> BackFrom(bs, hs, tgt)], Len(bs))

\* ---- levels ---------------------------------------------------------------
\* a level dict: rows of at most per_row cells, cell k holding bs[k] and hs[k]
LevelOf(bs, hs) ==
  LET n == Len(bs)
      nrows == (n + per_row - 1) \div per_row
      Row(r) == [k \in 1..Min(per_row, n - (r - 1) * per_row) |->
                   [baseHeight |-> hs[(r - 1) * per_row + k],
                    objects |-> bs[(r - 1) * per_row + k]]]
  IN  [rows |-> [r \in 1..nrows |-> Row(r)]]

\* the level dict create_level builds: every cell has baseHeight base_height
MakeLevel(bs, base_height) == LevelOf(bs, [k \in 1..Len(bs) |-> base_height])

LevelCells(lv) == Flatten(lv.rows, Len(lv.rows))

\* _parse_level: the bases and the heights of a level, row by row
ParseBases(lv) == [k \in 1..Len(LevelCells(lv)) |-> LevelCells(lv)[k].objects]

ParseHeights(lv) == [k \in 1..Len(LevelCells(lv)) |-> LevelCells(lv)[k].baseHeight]

\* ---- solve_level ----------------------------------------------------------
\* variant of Expand: new boards are marked visited but not appended to the queue
Expand_NoAppend(states, k, q, v) ==
  [queue |-> q, visited |-> v \cup {states[n] : n \in k..Len(states)}]

\* variant of Expand: every successor is appended, visited or not
Expand_NoVisitedTest(states, k, q, v) ==
  [queue |-> q \o SubSeq(states, k, Len(states)),
   visited |-> v \cup {states[n] : n \in k..Len(states)}]

\* the for loop over the successors of one expanded state, from position k on
RECURSIVE Expand(_, _, _, _)
Expand(states, k, q, v) ==
  IF k > Len(states) THEN [queue |-> q, visited |-> v]
  ELSE IF states[k] \notin v
       THEN Expand(states, k + 1, Append(q, states[k]), v \cup {states[k]})
       ELSE Expand(states, k + 1, q, v)

\* variant of SolvedBoard: no base is kept spare
SolvedBoard_AllFilled(c) ==
  LET color_count == Min(c.colors, c.base_count)
  IN  [i \in 1..c.base_count |->
         IF i <= color_count THEN [k \in 1..c.base_height |-> i] ELSE <<>>]

\* bases = [[c] * base_height for c in chosen_colors], padded with empty bases
SolvedBoard(c) ==
  LET color_count == Min(c.colors, c.base_count - 1)
  IN  [i \in 1..c.base_count |->
         IF i <= color_count THEN [k \in 1..c.base_height |-> i] ELSE <<>>]

NoLevel == [rows |-> <<>>]

\* settings = {}
EmptyDict == [k \in {} |-> 0]

Init ==
  /\ level_num = 0
  /\ settings = EmptyDict
  /\ cfg \in [base_count : 1..MaxBases, base_height : 1..MaxHeight,
              colors : 0..MaxColors, steps : 0..MaxSteps]
  /\ bases = <<>>
  /\ stepsLeft = 0
  /\ level = NoLevel
  /\ heights = <<>>
  /\ start = <<>>
  /\ queue = <<>>
  /\ visited = {}
  /\ explored = 0
  /\ solved = FALSE
  /\ result = <<>>
  /\ raised = FALSE
  /\ caller = "create"
  /\ pc = "build"

\* create_level, lines 130-134: a fresh solved board, then the call of scramble
BuildBoard ==
  /\ pc = "build"
  /\ bases' = SolvedBoard(cfg)
  /\ stepsLeft' = cfg.steps
  /\ pc' = "scramble"
  /\ UNCHANGED <<level_num, settings, cfg, level, heights, start, queue, visited, explored, solved,
                 result, raised, caller>>

\* one iteration of the loop of scramble, or its end
ScrambleStep ==
  /\ pc = "scramble"
  /\ IF stepsLeft = 0 \/ ScrambleMoves(bases, cfg.base_height) = {}
     THEN /\ pc' = IF caller = "api" THEN "scrambled" ELSE "check"
          /\ UNCHANGED <<bases, stepsLeft>>
     ELSE /\ \E m \in ScrambleMoves(bases, cfg.base_height) :
               bases' = MoveBlock(bases, m[1], m[2], m[3])
          /\ stepsLeft' = stepsLeft - 1
          /\ pc' = pc
  /\ UNCHANGED <<level_num, settings, cfg, level, heights, start, queue, visited, explored, solved,
                 result, raised, caller>>

\* solve_level, lines 279-283, called on level lv
EnterSolve(lv) ==
  /\ heights' = ParseHeights(lv)
  /\ start' = ParseBases(lv)
  /\ queue' = <<ParseBases(lv)>>
  /\ visited' = {ParseBases(lv)}
  /\ explored' = 0
  /\ pc' = "bfs"

\* create_level, lines 135-144: retry when solved, else build the level and solve it
CheckSolved ==
  /\ pc = "check"
  /\ IF is_solved(bases, cfg.base_height)
     THEN /\ pc' = "build"
          /\ UNCHANGED <<level, heights, start, queue, visited, explored>>
     ELSE /\ level' = MakeLevel(bases, cfg.base_height)
          /\ EnterSolve(MakeLevel(bases, cfg.base_height))
  /\ UNCHANGED <<level_num, settings, cfg, bases, stepsLeft, solved, result, raised, caller>>

\* variant of BfsStep: the lists of the level are used without copying them,
\* so the moves of an expansion are made on the cells of the level
BfsStep_InPlace ==
  /\ pc = "bfs"
  /\ IF queue = <<>>
     THEN /\ solved' = FALSE
          /\ pc' = "ret"
          /\ UNCHANGED <<queue, visited, explored, level>>
     ELSE LET cur == Head(queue)
              nxt == _next_states(cur, heights)
              e == Expand(nxt, 1, Tail(queue), visited)
          IN  IF _solved(cur, heights)
              THEN /\ solved' = TRUE
                   /\ pc' = "ret"
                   /\ queue' = Tail(queue)
                   /\ UNCHANGED <<visited, explored, level>>
              ELSE /\ queue' = e.queue
                   /\ visited' = e.visited
                   /\ explored' = explored + Len(nxt)
                   /\ level' = IF nxt = <<>> THEN level
                               ELSE LevelOf(nxt[Len(nxt)], heights)
                   /\ UNCHANGED <<solved, pc>>
  /\ UNCHANGED <<level_num, settings, cfg, bases, stepsLeft, heights, start,
                 result, raised, caller>>

\* variant of BfsStep: explored counts only the successors that are enqueued
BfsStep_CountNew ==
  /\ pc = "bfs"
  /\ IF queue = <<>>
     THEN /\ solved' = FALSE
          /\ pc' = "ret"
          /\ UNCHANGED <<queue, visited, explored>>
     ELSE LET cur == Head(queue)
              nxt == _next_states(cur, heights)
              e == Expand(nxt, 1, Tail(queue), visited)
          IN  IF _solved(cur, heights)
              THEN /\ solved' = TRUE
                   /\ pc' = "ret"
                   /\ queue' = Tail(queue)
                   /\ UNCHANGED <<visited, explored>>
              ELSE /\ queue' = e.queue
                   /\ visited' = e.visited
                   /\ explored' = explored + Len(e.queue) - Len(Tail(queue))
                   /\ UNCHANGED <<solved, pc>>
  /\ UNCHANGED <<level_num, settings, cfg, bases, stepsLeft, level, heights, start,
                 result, raised, caller>>

\* one iteration of the while loop of solve_level, or its end
BfsStep ==
  /\ pc = "bfs"
  /\ IF queue = <<>>
     THEN /\ solved' = FALSE
          /\ pc' = "ret"
          /\ UNCHANGED <<queue, visited, explored>>
     ELSE LET cur == Head(queue)
              nxt == _next_states(cur, heights)
              e == Expand(nxt, 1, Tail(queue), visited)
          IN  IF _solved(cur, heights)
              THEN /\ solved' = TRUE
                   /\ pc' = "ret"
                   /\ queue' = Tail(queue)
                   /\ UNCHANGED <<visited, explored>>
              ELSE /\ queue' = e.queue
                   /\ visited' = e.visited
                   /\ explored' = explored + Len(nxt)
                   /\ UNCHANGED <<solved, pc>>
  /\ UNCHANGED <<level_num, settings, cfg, bases, stepsLeft, level, heights, start, result, raised, caller>>

\* variant of AfterSolve: the level is returned whatever the solver said
AfterSolve_AlwaysReturn ==
  /\ pc = "ret"
  /\ caller = "create"
  /\ pc' = "returned"
  /\ UNCHANGED <<level_num, settings, cfg, bases, stepsLeft, level, heights, start, queue, visited,
                 explored, solved, result, raised, caller>>

\* create_level, lines 145-146: return the level when the solver accepts it
AfterSolve ==
  /\ pc = "ret"
  /\ caller = "create"
  /\ pc' = IF solved THEN "returned" ELSE "build"
  /\ UNCHANGED <<level_num, settings, cfg, bases, stepsLeft, level, heights, start, queue, visited,
                 explored, solved, result, raised, caller>>

\* main, line 304: the returned level is solved again
MainSolve ==
  /\ pc = "returned"
  /\ caller' = "main"
  /\ EnterSolve(level)
  /\ UNCHANGED <<level_num, settings, cfg, bases, stepsLeft, level, solved, result, raised>>

\* main, lines 305-307: RuntimeError when the level has no solution
MainCheck ==
  /\ pc = "ret"
  /\ caller = "main"
  /\ IF ~solved
     THEN pc' = "error" /\ raised' = TRUE
     ELSE pc' = "done" /\ raised' = raised
  /\ UNCHANGED <<level_num, settings, cfg, bases, stepsLeft, level, heights, start, queue, visited,
                 explored, solved, result, caller>>

Next ==
  \/ BuildBoard
  \/ ScrambleStep
  \/ CheckSolved
  \/ BfsStep
  \/ AfterSolve
  \/ MainSolve
  \/ MainCheck

Spec == Init /\ [][Next]_vars

\* ---- generate_levels --------------------------------------------------------
\* settings.update(d)
DictUpdate(st, d) ==
  [k \in DOMAIN st \cup DOMAIN d |-> IF k \in DOMAIN d THEN d[k] ELSE st[k]]

\* settings.get(key, default)
DictGet(st, key, default) == IF key \in DOMAIN st THEN st[key] ELSE default

\* variant of UpdateSettings: the settings start empty at every level
UpdateSettings_Forget(st, n) ==
  IF n \in DOMAIN DIFFICULTY_STEPS THEN DIFFICULTY_STEPS[n] ELSE EmptyDict

\* the settings after the test of level number n against DIFFICULTY_STEPS
UpdateSettings(st, n) ==
  IF n \in DOMAIN DIFFICULTY_STEPS
  THEN DictUpdate(st, DIFFICULTY_STEPS[n])
  ELSE st

\* the colours are loaded, no level is generated yet
SchedInit ==
  /\ level_num = 0
  /\ settings = EmptyDict
  /\ cfg \in [base_count : {0}, base_height : {0}, colors : 0..MaxColors, steps : {0}]
  /\ bases = <<>>
  /\ stepsLeft = 0
  /\ level = NoLevel
  /\ heights = <<>>
  /\ start = <<>>
  /\ queue = <<>>
  /\ visited = {}
  /\ explored = 0
  /\ solved = FALSE
  /\ result = <<>>
  /\ raised = FALSE
  /\ caller = "generate"
  /\ pc = "generate"

\* one iteration of the loop of generate_levels: cfg receives the arguments of
\* the call of create_level (the call itself is what Spec models)
GenerateLevel ==
  /\ pc = "generate"
  /\ level_num < NUM_LEVELS
  /\ settings' = UpdateSettings(settings, level_num)
  /\ cfg' = [base_count |-> DictGet(settings', "bases_count", 3),
             base_height |-> DictGet(settings', "base_height", 5),
             colors |-> cfg.colors,
             steps |-> DictGet(settings', "steps", 5)]
  /\ level_num' = level_num + 1
  /\ UNCHANGED <<bases, stepsLeft, level, heights, start, queue, visited,
                 explored, solved, result, raised, caller, pc>>

\* the loop of generate_levels ends after NUM_LEVELS levels
GenerateDone ==
  /\ pc = "generate"
  /\ level_num = NUM_LEVELS
  /\ pc' = "generated"
  /\ UNCHANGED <<level_num, settings, cfg, bases, stepsLeft, level, heights, start,
                 queue, visited, explored, solved, result, raised, caller>>

SchedNext ==
  \/ GenerateLevel
  \/ GenerateDone

SchedSpec == SchedInit /\ [][SchedNext]_vars

\* ---- the functions called on an arbitrary board -----------------------------
\* the bases of at most h objects
BasesUpTo(h) == UNION {[1..n -> 1..FnMaxColors] : n \in 0..h}

\* the boards whose bases respect the heights hs
BoardsOf(hs) ==
  { b \in [1..Len(hs) -> BasesUpTo(FnMaxHeight)] :
      \A i \in 1..Len(hs) : Len(b[i]) <= hs[i] }

\* the caller's board: at most nb bases of height at most mh, any content that fits
FnInitBounded(nb, mh) ==
  /\ heights \in UNION {[1..n -> 1..mh] : n \in 1..nb}
  /\ bases \in BoardsOf(heights)
  /\ level_num = 0
  /\ settings = EmptyDict
  /\ cfg \in [base_count : {Len(heights)}, base_height : {heights[1]},
              colors : {FnMaxColors}, steps : 0..FnMaxSteps]
  /\ stepsLeft = 0
  /\ level = NoLevel
  /\ start = <<>>
  /\ queue = <<>>
  /\ visited = {}
  /\ explored = 0
  /\ solved = FALSE
  /\ result = <<>>
  /\ raised = FALSE
  /\ caller = "api"
  /\ pc = "input"

\* scramble(bases, base_height, steps) on a board whose bases all have that height
FnScramble ==
  /\ pc = "input"
  /\ \A i \in 1..Len(heights) : heights[i] = cfg.base_height
  /\ stepsLeft' = cfg.steps
  /\ pc' = "scramble"
  /\ UNCHANGED <<level_num, settings, cfg, bases, level, heights, start, queue, visited, explored,
                 solved, result, raised, caller>>

\* solve_level(level) on the level holding the board
FnSolve ==
  /\ pc \in {"input", "scrambled"}
  /\ level' = LevelOf(bases, heights)
  /\ EnterSolve(LevelOf(bases, heights))
  /\ UNCHANGED <<level_num, settings, cfg, bases, stepsLeft, solved, result, raised, caller>>

\* _next_states(bases, heights)
FnNextStates ==
  /\ pc = "input"
  /\ result' = _next_states(bases, heights)
  /\ pc' = "ns_done"
  /\ UNCHANGED <<level_num, settings, cfg, bases, stepsLeft, level, heights, start, queue, visited,
                 explored, solved, raised, caller>>

\* variant of FnBackPropagate: the precondition is not checked
FnBackPropagate_NoCheck ==
  /\ pc = "input"
  /\ raised' = FALSE
  /\ result' = back_propagate(bases, heights)
  /\ pc' = "bp_done"
  /\ UNCHANGED <<level_num, settings, cfg, bases, stepsLeft, level, heights, start, queue, visited,
                 explored, solved, caller>>

\* back_propagate(bases, heights): ValueError unless the board is solved
FnBackPropagate ==
  /\ pc = "input"
  /\ IF ~_solved(bases, heights)
     THEN raised' = TRUE /\ result' = <<>>
     ELSE raised' = FALSE /\ result' = back_propagate(bases, heights)
  /\ pc' = "bp_done"
  /\ UNCHANGED <<level_num, settings, cfg, bases, stepsLeft, level, heights, start, queue, visited,
                 explored, solved, caller>>

\* _solved(bases, heights)
FnSolved ==
  /\ pc = "input"
  /\ solved' = _solved(bases, heights)
  /\ pc' = "solved_done"
  /\ UNCHANGED <<level_num, settings, cfg, bases, stepsLeft, level, heights, start, queue, visited,
                 explored, result, raised, caller>>

\* is_solved(bases, base_height)
FnIsSolved ==
  /\ pc = "input"
  /\ solved' = is_solved(bases, cfg.base_height)
  /\ pc' = "is_solved_done"
  /\ UNCHANGED <<level_num, settings, cfg, bases, stepsLeft, level, heights, start, queue, visited,
                 explored, result, raised, caller>>

FnInit == FnInitBounded(FnMaxBases, FnMaxHeight)

FnLiveInit == FnInitBounded(LiveMaxBases, LiveMaxHeight)

FnNext ==
  \/ FnScramble
  \/ ScrambleStep
  \/ FnSolve
  \/ BfsStep
  \/ FnNextStates
  \/ FnBackPropagate
  \/ FnSolved
  \/ FnIsSolved

FnSpec == FnInit /\ [][FnNext]_vars

\* ---- solve_level called on a malformed level --------------------------------
\* the caller's level: some cell holds more objects than its baseHeight
MalInit ==
  /\ heights \in UNION {[1..n -> 1..MalMaxHeight] : n \in 1..MalMaxBases}
  /\ bases \in { b \in [1..Len(heights) -> BasesUpTo(MalMaxHeight + 1)] :
                   \E i \in 1..Len(heights) : Len(b[i]) > heights[i] }
  /\ level_num = 0
  /\ settings = EmptyDict
  /\ cfg = [base_count |-> Len(heights), base_height |-> heights[1],
            colors |-> FnMaxColors, steps |-> 0]
  /\ stepsLeft = 0
  /\ level = NoLevel
  /\ start = <<>>
  /\ queue = <<>>
  /\ visited = {}
  /\ explored = 0
  /\ solved = FALSE
  /\ result = <<>>
  /\ raised = FALSE
  /\ caller = "api"
  /\ pc = "input"

MalNext ==
  \/ FnSolve
  \/ BfsStep

MalSpec == MalInit /\ [][MalNext]_vars

\* the program keeps running: an enabled step of the search is eventually taken
FnLiveSpec == FnLiveInit /\ [][FnNext]_vars /\ WF_vars(BfsStep)

\* ---- vocabulary of the properties -------------------------------------------
Range(f) == {f[k] : k \in DOMAIN f}

\* the boards reachable from the boards of `seen` by forward moves
RECURSIVE ReachSet(_, _, _)
ReachSet(frontier, seen, hs) ==
  IF frontier = {} THEN seen
  ELSE LET new == (UNION {Range(_next_states(b, hs)) : b \in frontier}) \ seen
       IN  ReachSet(new, seen \cup new, hs)

Reachable(b, hs) == ReachSet({b}, {b}, hs)

\* some solved board is reachable from b by zero or more forward moves
Solvable(b, hs) == \E u \in Reachable(b, hs) : _solved(u, hs)

UniformHeights(n, h) == [k \in 1..n |-> h]

RespectsHeights(b, hs) ==
  Len(b) = Len(hs) /\ \A i \in 1..Len(b) : Len(b[i]) <= hs[i]

\* the length of the uniform run at the top of a non-empty base
RunLength(b) ==
  CHOOSE n \in 1..Len(b) :
    /\ \A k \in (Len(b) - n + 1)..Len(b) : b[k] = b[Len(b)]
    /\ n = Len(b) \/ b[Len(b) - n] # b[Len(b)]

\* the legal forward moves (i, j, count) of the rules of the game
LegalMoves(b, hs) ==
  { m \in (1..Len(b)) \X (1..Len(b)) \X (1..FnMaxHeight + MaxHeight) :
      /\ m[1] # m[2]
      /\ b[m[1]] # <<>>
      /\ hs[m[2]] - Len(b[m[2]]) > 0
      /\ b[m[2]] = <<>> \/ b[m[2]][Len(b[m[2]])] = b[m[1]][Len(b[m[1]])]
      /\ m[3] <= Min(RunLength(b[m[1]]), hs[m[2]] - Len(b[m[2]])) }

\* the board with the top count objects of base i moved onto base j
Moved(b, i, j, count) ==
  [k \in 1..Len(b) |->
     IF k = i THEN SubSeq(b[i], 1, Len(b[i]) - count)
     ELSE IF k = j THEN b[j] \o SubSeq(b[i], Len(b[i]) - count + 1, Len(b[i]))
     ELSE b[k]]

\* the number of objects of colour c on a board
RECURSIVE CountIn(_, _, _)
CountIn(b, c, i) ==
  IF i = 0 THEN 0
  ELSE CountIn(b, c, i - 1) + Cardinality({k \in 1..Len(b[i]) : b[i][k] = c})

ColourCount(b, c) == CountIn(b, c, Len(b))

SameObjects(b, b0) ==
  /\ Len(b) = Len(b0)
  /\ \A c \in 1..(MaxColors + FnMaxColors) : ColourCount(b, c) = ColourCount(b0, c)

\* ---- C1 ---------------------------------------------------------------------
\* C1: every board scramble can produce from the solved board of create_level
\* has a solved board reachable by forward moves.
C1_ScrambledIsSolvable ==
  (caller = "create" /\ pc \in {"scramble", "check"}) =>
    Solvable(bases, UniformHeights(Len(bases), cfg.base_height))

\* ---- C2 ---------------------------------------------------------------------
\* C2: solve_level returns solved = True exactly when a solved board is
\* reachable from the start board by forward moves, and solved = False exactly
\* when the queue emptied and no visited board is solved.
C2_SolveDecides ==
  (pc = "ret") =>
    /\ solved <=> Solvable(start, heights)
    /\ ~solved <=> (queue = <<>> /\ \A v \in visited : ~_solved(v, heights))

\* a search that found a solved board other than the start board
C2_Witness ==
  pc = "ret" /\ solved /\ ~_solved(start, heights) /\ RespectsHeights(start, heights)

\* ---- C3 ---------------------------------------------------------------------
\* what one iteration of the search may do to the queue: drop the head and
\* append boards that were not visited, are now visited, and are distinct
EnqueuesOnlyNew ==
  (pc = "bfs" /\ queue # <<>>) =>
    LET kept == Len(queue) - 1
        added == {k \in 1..Len(queue') : k > kept}
    IN  /\ Len(queue') >= kept
        /\ SubSeq(queue', 1, kept) = Tail(queue)
        /\ visited \subseteq visited'
        /\ visited' = visited \cup {queue'[k] : k \in added}
        /\ \A k \in added : queue'[k] \notin visited
        /\ \A k, l \in added : k # l => queue'[k] # queue'[l]

\* C3: the search of solve_level terminates, and a board enters the queue only
\* at the moment it is first added to the visited set, so never twice.
C3_BfsTerminatesNoRevisit ==
  /\ (pc = "bfs") ~> (pc = "ret")
  /\ [][EnqueuesOnlyNew]_vars
  /\ [](pc = "bfs" => /\ Range(queue) \subseteq visited
                      /\ Cardinality(Range(queue)) = Len(queue))

\* a finished search that met an already visited successor
C3_Witness ==
  pc = "ret" /\ explored > Cardinality(visited) - 1 /\ Cardinality(visited) > 2

\* ---- C4 ---------------------------------------------------------------------
\* C4: the level create_level returns is not solved and was accepted by the
\* solver, and solving it again in main gives solved = True, so main never
\* raises its RuntimeError.
C4_ReturnedLevelValid ==
  /\ (pc = "returned" \/ caller = "main") =>
        /\ ~_solved(ParseBases(level), ParseHeights(level))
        /\ ~is_solved(ParseBases(level), cfg.base_height)
  /\ pc = "returned" => solved
  /\ (caller = "main" /\ pc \in {"ret", "done", "error"}) => solved
  /\ pc # "error"
  /\ ~raised

\* main validated a returned level
C4_Witness == pc = "done" /\ caller = "main" /\ level # NoLevel

\* ---- C5 ---------------------------------------------------------------------
\* C5: every board U that back_propagate returns for a solved board S is not
\* solved and has exactly one legal forward move whose result is S.
C5_BackPropagateReversible ==
  (pc = "bp_done" /\ ~raised) =>
    \A k \in 1..Len(result) :
      /\ ~_solved(result[k], heights)
      /\ Cardinality({m \in LegalMoves(result[k], heights) :
                        Moved(result[k], m[1], m[2], m[3]) = bases}) = 1

\* back_propagate returned predecessors of a solved board with two filled bases
C5_Witness ==
  /\ pc = "bp_done" /\ ~raised /\ Len(result) >= 2
  /\ Cardinality({i \in 1..Len(bases) : bases[i] # <<>>}) >= 2

\* ---- C6 ---------------------------------------------------------------------
\* C6: for a solved board S the boards back_propagate returns are exactly the
\* non-solved boards respecting the heights that have S among the successors
\* _next_states produces.
C6_BackPropagateComplete ==
  (pc = "bp_done" /\ ~raised) =>
    Range(result) =
      { u \in BoardsOf(heights) :
          ~_solved(u, heights) /\ bases \in Range(_next_states(u, heights)) }

\* two full bases of height 3 and an empty one: exactly the 4 boards of the test
C6_Witness ==
  /\ pc = "bp_done" /\ ~raised
  /\ bases = <<<<1, 1, 1>>, <<2, 2, 2>>, <<>>>>
  /\ heights = <<3, 3, 3>>
  /\ Range(result) = { <<<<1, 1>>, <<2, 2, 2>>, <<1>>>>,
                       <<<<1>>, <<2, 2, 2>>, <<1, 1>>>>,
                       <<<<1, 1, 1>>, <<2, 2>>, <<2>>>>,
                       <<<<1, 1, 1>>, <<2>>, <<2, 2>>>> }

\* ---- C7 ---------------------------------------------------------------------
\* C7: back_propagate raises exactly when its board is not solved; it then
\* returns no list, and it leaves the board it was given unchanged.
C7_BackPropagatePrecondition ==
  [][(pc = "input" /\ pc' = "bp_done") =>
        /\ raised' <=> ~_solved(bases, heights)
        /\ raised' => result' = <<>>
        /\ bases' = bases /\ heights' = heights]_vars

\* the call on a board that is not solved raised
C7_Witness == pc = "bp_done" /\ raised /\ ~_solved(bases, heights)

\* ---- C8 ---------------------------------------------------------------------
\* C8: every board met after scramble moves and forward moves has as many
\* bases and as many objects of every colour as the board create_level built.
C8_Conservation ==
  pc # "build" =>
    \A b \in {bases} \cup (IF pc \in {"bfs", "ret"} THEN Range(queue) \cup visited ELSE {}) :
      SameObjects(b, SolvedBoard(cfg))

\* a search over several boards that started from a scrambled board
C8_Witness ==
  /\ pc = "bfs" /\ caller = "create"
  /\ bases # SolvedBoard(cfg)
  /\ Cardinality(visited) > 2

\* ---- C9 ---------------------------------------------------------------------
\* C9: from a board whose bases hold at most their heights, every board made
\* by scramble moves, by _next_states or by back_propagate holds at most its
\* heights in every base.
C9_Capacity ==
  \A b \in {bases} \cup Range(queue) \cup visited \cup Range(result) :
    RespectsHeights(b, heights)

\* a search over several boards that started from a scrambled board with a full base
C9_Witness ==
  /\ pc = "bfs" /\ cfg.steps > 0 /\ stepsLeft = 0
  /\ Cardinality(visited) > 2
  /\ \E i \in 1..Len(bases) : Len(bases[i]) = heights[i]

\* ---- C10 --------------------------------------------------------------------
\* C10: the list _next_states returns holds one board per legal move
\* (i, j, count), the board with the top count objects of i moved onto j, and
\* no other board.
C10_NextStatesExact ==
  (pc = "ns_done") =>
    /\ Range(result) =
         {Moved(bases, m[1], m[2], m[3]) : m \in LegalMoves(bases, heights)}
    /\ Len(result) = Cardinality(LegalMoves(bases, heights))

\* a board with a move of more than one object and a target blocked by colour
C10_Witness ==
  /\ pc = "ns_done"
  /\ \E m \in LegalMoves(bases, heights) : m[3] >= 2
  /\ \E i, j \in 1..Len(bases) :
       /\ bases[i] # <<>> /\ bases[j] # <<>> /\ Len(bases[j]) < heights[j]
       /\ bases[i][Len(bases[i])] # bases[j][Len(bases[j])]

\* ---- C11 --------------------------------------------------------------------
\* a base is solved when it is empty, or full and of one colour
SolvedBase(b, h) ==
  b = <<>> \/ (Len(b) = h /\ \A k, l \in 1..Len(b) : b[k] = b[l])

\* C11: _solved is True exactly when every base is empty or full and uniform,
\* and is_solved(bases, h) agrees with _solved when every height equals h.
C11_SolvedExact ==
  /\ pc = "solved_done" =>
       (solved <=> \A i \in 1..Len(bases) : SolvedBase(bases[i], heights[i]))
  /\ (pc = "is_solved_done" /\ \A i \in 1..Len(heights) : heights[i] = cfg.base_height) =>
       (solved <=> _solved(bases, heights))

\* _solved rejected a board whose only defect is a uniform base that is not full
C11_Witness ==
  /\ pc = "solved_done" /\ ~solved
  /\ \A i \in 1..Len(bases) : Uniform(bases[i])
  /\ \E i \in 1..Len(bases) : SolvedBase(bases[i], heights[i]) /\ bases[i] # <<>>

\* ---- C12 --------------------------------------------------------------------
\* one pass of the retry loop of create_level can end with an accepted board:
\* some sequence of scramble choices leaves a board that is not solved and
\* from which a solved board is reachable (which is what solve_level decides)
CanReturn(c) ==
  \E b \in ScrambleOutcomes({SolvedBoard(c)}, c.base_height, c.steps) :
    /\ ~is_solved(b, c.base_height)
    /\ Solvable(b, UniformHeights(Len(b), c.base_height))

ScheduleValue(f, default, n) ==
  LET ks == {k \in DOMAIN DIFFICULTY_STEPS :
               k <= n /\ f \in DOMAIN DIFFICULTY_STEPS[k]}
  IN  IF ks = {} THEN default
      ELSE DIFFICULTY_STEPS[CHOOSE k \in ks : \A j \in ks : j <= k][f]

\* C13: the arguments create_level receives for level n are, field by field,
\* the value set by the greatest key of DIFFICULTY_STEPS <= n that sets the
\* field, or the default 3, 5, 5.
C13_ScheduleCumulative ==
  (level_num >= 1) =>
    /\ level_num <= NUM_LEVELS
    /\ cfg.base_count = ScheduleValue("bases_count", 3, level_num - 1)
    /\ cfg.base_height = ScheduleValue("base_height", 5, level_num - 1)
    /\ cfg.steps = ScheduleValue("steps", 5, level_num - 1)

\* level 12: bases_count and steps of key 10, base_height still that of key 0
C13_Witness ==
  /\ level_num = 13 /\ pc = "generate"
  /\ cfg.base_count = 4 /\ cfg.steps = 15 /\ cfg.base_height = 5

\* ---- C14 --------------------------------------------------------------------
\* three bases of height 2 and the two objects of one colour
SingleColourConfig ==
  cfg.base_count = 3 /\ cfg.base_height = 2 /\ cfg.colors = 1

\* C14: with two objects of one colour in three bases of height 2, every board
\* scramble reaches from the solved arrangement within `steps` moves has a
\* solved board within reach, and solve_level returns solved = True on it.
C14_SingleColourSolvable ==
  (SingleColourConfig /\ caller \in {"create", "main"}) =>
    /\ pc \in {"scramble", "check"} =>
         Solvable(bases, UniformHeights(Len(bases), cfg.base_height))
    /\ pc = "ret" => solved

\* the solver accepted the board with the two objects on different bases
C14_Witness ==
  /\ SingleColourConfig /\ pc = "ret" /\ caller = "create" /\ solved
  /\ explored > 0
  /\ \E i, j \in 1..Len(start) : i # j /\ Len(start[i]) = 1 /\ Len(start[j]) = 1

\* ---- C15 --------------------------------------------------------------------
\* some cell of the level holds more objects than its baseHeight
Malformed(lv) ==
  \E k \in 1..Len(LevelCells(lv)) :
    Len(LevelCells(lv)[k].objects) > LevelCells(lv)[k].baseHeight

\* C15: a level with a cell that holds more objects than its baseHeight is
\* rejected with a failure when the board is built from it: it is never
\* searched, and no solved / unsolvable verdict is returned for it.
C15_MalformedRejected ==
  (level # NoLevel /\ Malformed(level)) =>
    (raised /\ pc \notin {"bfs", "ret"})

\* ---- C16 --------------------------------------------------------------------
\* the step of scramble from bases to bases' can be undone by a scramble move:
\* for the move (i, j, mv) it applied, (j, i, mv) is offered on bases' and
\* gives bases back
UndoneByScrambleMove ==
  (pc = "scramble" /\ bases' # bases) =>
    \A m \in ScrambleMoves(bases, cfg.base_height) :
      bases' = MoveBlock(bases, m[1], m[2], m[3]) =>
        /\ <<m[2], m[1], m[3]>> \in ScrambleMoves(bases', cfg.base_height)
        /\ MoveBlock(bases', m[2], m[1], m[3]) = bases

\* C16: every scramble move is undone by the scramble move (j, i, mv), so the
\* solved board create_level built is among the boards that as many scramble
\* moves as were applied can give back.
C16_ScrambleReversible ==
  /\ [][UndoneByScrambleMove]_vars
  /\ []((pc = "scramble" /\ caller = "create") =>
          SolvedBoard(cfg) \in
            ScrambleOutcomes({bases}, cfg.base_height, cfg.steps - stepsLeft))

\* scramble mixed two colours on one base
C16_Witness ==
  /\ pc = "scramble" /\ caller = "create" /\ stepsLeft <= cfg.steps - 2
  /\ \E i \in 1..Len(bases) : ~Uniform(bases[i])

\* ---- C17 --------------------------------------------------------------------
\* the sum of Len(_next_states(b, hs)) over the boards b of S
RECURSIVE SuccessorsOf(_, _)
SuccessorsOf(S, hs) ==
  IF S = {} THEN 0
  ELSE LET b == CHOOSE x \in S : TRUE
       IN  Len(_next_states(b, hs)) + SuccessorsOf(S \ {b}, hs)

\* the boards the search has expanded: visited, taken from the queue, and not
\* solved (the solved board that ends the search is popped but not expanded)
Expanded ==
  {b \in visited \ Range(queue) : ~_solved(b, heights)}

\* C17: explored is the number of successors _next_states generated for the
\* boards expanded so far, visited or not; it is 0 when the start is solved.
C17_ExploredCountsGenerated ==
  (pc \in {"bfs", "ret"}) =>
    /\ explored = SuccessorsOf(Expanded, heights)
    /\ (pc = "ret" /\ _solved(start, heights)) => explored = 0

\* a finished search that generated more successors than it found new boards
C17_Witness ==
  /\ pc = "ret" /\ Cardinality(Expanded) >= 2
  /\ explored > Cardinality(visited) - 1

\* ---- C18 --------------------------------------------------------------------
\* a step of the search leaves the level and the caller's board as they are,
\* and _next_states leaves its arguments as they are
InputUntouched ==
  /\ pc = "bfs" => (level' = level /\ bases' = bases)
  /\ (pc = "input" /\ pc' = "ns_done") => (bases' = bases /\ heights' = heights)

\* C18: solve_level returns with every cell of the level holding the objects
\* and the baseHeight it held at the call, and _next_states returns boards
\* other than the one it was given, which it leaves unchanged.
C18_SolveLeavesInput ==
  /\ [][InputUntouched]_vars
  /\ [](pc = "ret" => /\ level = LevelOf(bases, heights)
                      /\ ParseBases(level) = start
                      /\ ParseHeights(level) = heights)
  /\ [](pc = "ns_done" => \A k \in 1..Len(result) : result[k] # bases)

\* a search that expanded several boards has returned
C18_Witness ==
  /\ pc = "ret" /\ Cardinality(visited) > 2 /\ explored > 2
  /\ level = LevelOf(bases, heights)

\* ---- C19 --------------------------------------------------------------------
\* at least one colour is placed on the initial board of create_level
ColourPlaced(c) == c.colors >= 1 /\ c.base_count >= 2

\* C19: in create_level with at least one colour placed and base_count >= 2,
\* every board the scramble loop stands on has a candidate move, and the loop
\* is left only after `steps` moves have been applied.
C19_ScrambleNeverStopsEarly ==
  (caller = "create" /\ ColourPlaced(cfg)) =>
    /\ pc = "scramble" => ScrambleMoves(bases, cfg.base_height) # {}
    /\ pc = "check" => stepsLeft = 0

\* the scramble loop of create_level has ended after the largest number of steps
C19_Witness ==
  /\ caller = "create" /\ ColourPlaced(cfg)
  /\ pc = "check" /\ stepsLeft = 0 /\ cfg.steps = MaxSteps
  /\ bases # SolvedBoard(cfg)

====
